---- MODULE Spec2Model ----
(***************************************************************************)
(* Settings entities of dtlpy (dtlpy/entities/setting.py): SettingScope,   *)
(* BaseSetting, Setting and UserSetting, their constructors, their JSON    *)
(* (de)serialization and the update/delete delegation to the bound         *)
(* settings repository.                                                    *)
(*                                                                         *)
(* Python values are tagged tuples: <<"None">>, <<"bool", b>>,             *)
(* <<"int", n>>, <<"str", s>>, <<"dict", f>> (f a function on its keys)    *)
(* and <<"list", seq>>.  Objects are records of their attributes.          *)
(***************************************************************************)
EXTENDS Integers, Sequences, FiniteSets, TLC

VARIABLES args, entity, out, saved, call, result, trace

vars == <<args, entity, out, saved, call, result, trace>>

(* ---------------------------- bounds ----------------------------------- *)

\* longest metadata['slots'] list that is enumerated
MaxSlots == 2

\* longest slot['displayScopes'] list that is enumerated
MaxDisplayScopes == 2

(* ------------------------- Python values ------------------------------- *)

None == <<"None">>

PyBool(b) == <<"bool", b>>

PyInt(n) == <<"int", n>>

PyStr(s) == <<"str", s>>

PyDict(f) == <<"dict", f>>

PyList(l) == <<"list", l>>

IsNone(v) == v[1] = "None"

IsDict(v) == v[1] = "dict"

IsList(v) == v[1] = "list"

\* bool(v): the truth value Python's `if v:` tests
Truthy(v) ==
    CASE v[1] = "None" -> FALSE
      [] v[1] = "bool" -> v[2]
      [] v[1] = "int"  -> v[2] # 0
      [] v[1] = "str"  -> v[2] # ""
      [] v[1] = "dict" -> DOMAIN v[2] # {}
      [] v[1] = "list" -> Len(v[2]) > 0

\* d.get(k, None) on the key/value function of a dict
Get(d, k) == IF k \in DOMAIN d THEN d[k] ELSE None

\* d[k] = v on the key/value function of a dict
SetItem(d, k, v) == [x \in (DOMAIN d) \cup {k} |-> IF x = k THEN v ELSE d[x]]

\* if cond: d[k] = v
SetIf(cond, d, k, v) == IF cond THEN SetItem(d, k, v) ELSE d

\* dict()
EmptyDict == [x \in {} |-> None]

\* a call that returns v; effects lists, in order, what the call did to
\* its collaborators (warnings issued, repository objects built or called)
Return(v) == [raised |-> FALSE, val |-> v, effects |-> <<>>]

\* a call that raises the exception e
Raise(e) == [raised |-> TRUE, val |-> <<"exception", e>>, effects |-> <<>>]

\* the effects effs happen, then the rest of the call gives outcome o
After(effs, o) == [o EXCEPT !.effects = effs \o @]

(* ------------------------- json.dumps ---------------------------------- *)

\* str(n) for the integers that occur in the enumerated filters
IntRepr(n) ==
    CASE n = 0 -> "0" [] n = 1 -> "1" [] n = 2 -> "2" [] n = 3 -> "3"
      [] n = 4 -> "4" [] n = 5 -> "5" [] n = 6 -> "6" [] n = 7 -> "7"
      [] n = 8 -> "8" [] n = 9 -> "9"

\* insertion order of the keys of the enumerated filter mappings (json.dumps
\* walks a dict in insertion order)
FilterKeyOrder == <<"field", "value">>

\* json.dumps of a scalar
DumpScalar(v) ==
    CASE v[1] = "None" -> "null"
      [] v[1] = "bool" -> (IF v[2] THEN "true" ELSE "false")
      [] v[1] = "int"  -> IntRepr(v[2])
      [] v[1] = "str"  -> "\"" \o v[2] \o "\""

RECURSIVE DumpItems(_, _)
\* the '"key": value' items of d for the keys ks, joined by ', '
DumpItems(d, ks) ==
    IF ks = <<>> THEN ""
    ELSE LET item == "\"" \o Head(ks) \o "\": " \o DumpScalar(d[Head(ks)])
         IN  IF Tail(ks) = <<>> THEN item
             ELSE item \o ", " \o DumpItems(d, Tail(ks))

\* json.dumps(v) with the default separators, for a flat mapping
json_dumps(v) ==
    IF IsDict(v)
    THEN "{" \o DumpItems(v[2], SelectSeq(FilterKeyOrder, LAMBDA k : k \in DOMAIN v[2])) \o "}"
    ELSE DumpScalar(v)

(* ------------------------- SettingScope -------------------------------- *)

ScopeAttrs == {"type", "id", "role", "prevent_override", "visible"}

\* SettingScope.__init__
SettingScope_init(type, id, role, prevent_override, visible) ==
    [type |-> type, id |-> id, role |-> role,
     prevent_override |-> prevent_override, visible |-> visible]

\* SettingScope.from_json reading the attribute name instead of the JSON key
SettingScope_from_json_snake(_json) ==
    IF ~IsDict(_json) THEN Raise("AttributeError")
    ELSE Return(SettingScope_init(Get(_json[2], "type"),
                                  Get(_json[2], "id"),
                                  Get(_json[2], "role"),
                                  Get(_json[2], "prevent_override"),
                                  Get(_json[2], "visible")))

\* SettingScope.from_json: _json.get on a non-dict raises AttributeError
SettingScope_from_json(_json) ==
    IF ~IsDict(_json) THEN Raise("AttributeError")
    ELSE Return(SettingScope_init(Get(_json[2], "type"),
                                  Get(_json[2], "id"),
                                  Get(_json[2], "role"),
                                  Get(_json[2], "preventOverride"),
                                  Get(_json[2], "visible")))

\* SettingScope.to_json testing visible against None instead of its truth
SettingScope_to_json_notnone(self) ==
    LET j0 == EmptyDict
        j1 == SetIf(Truthy(self.type), j0, "type", self.type)
        j2 == SetIf(Truthy(self.id), j1, "id", self.id)
        j3 == SetIf(Truthy(self.role), j2, "role", self.role)
        j4 == SetIf(Truthy(self.prevent_override), j3, "preventOverride", self.prevent_override)
        j5 == SetIf(~IsNone(self.visible), j4, "visible", self.visible)
    IN  PyDict(j5)

\* SettingScope.to_json
SettingScope_to_json(self) ==
    LET j0 == EmptyDict
        j1 == SetIf(Truthy(self.type), j0, "type", self.type)
        j2 == SetIf(Truthy(self.id), j1, "id", self.id)
        j3 == SetIf(Truthy(self.role), j2, "role", self.role)
        j4 == SetIf(Truthy(self.prevent_override), j3, "preventOverride", self.prevent_override)
        j5 == SetIf(Truthy(self.visible), j4, "visible", self.visible)
    IN  PyDict(j5)

(* --------------------------- BaseSetting ------------------------------- *)

\* BaseSetting.__init__ raising when either of the two is None
BaseSetting_init_either(self, default_value, value, name, value_type, scope, metadata, setting_type, id) ==
    IF IsNone(value) \/ IsNone(default_value)
    THEN Raise("Must provide either value or default_value")
    ELSE After(<< <<"repositories.Settings">> >>,
               Return(self @@ [default_value |-> default_value,
                               name |-> name,
                               value |-> value,
                               value_type |-> value_type,
                               scope |-> scope,
                               metadata |-> metadata,
                               setting_type |-> setting_type,
                               id |-> id]))

\* BaseSetting.__init__ without its check
BaseSetting_init_unchecked(self, default_value, value, name, value_type, scope, metadata, setting_type, id) ==
    After(<< <<"repositories.Settings">> >>,
          Return(self @@ [default_value |-> default_value,
                          name |-> name,
                          value |-> value,
                          value_type |-> value_type,
                          scope |-> scope,
                          metadata |-> metadata,
                          setting_type |-> setting_type,
                          id |-> id]))

\* BaseSetting.__init__ on the fresh object self (which carries its class);
\* client_api, project and org are opaque handles that are only passed on
\* to repositories.Settings
BaseSetting_init(self, default_value, value, name, value_type, scope, metadata, setting_type, id) ==
    IF IsNone(value) /\ IsNone(default_value)
    THEN Raise("Must provide either value or default_value")
    ELSE After(<< <<"repositories.Settings">> >>,
               Return(self @@ [default_value |-> default_value,
                               name |-> name,
                               value |-> value,
                               value_type |-> value_type,
                               scope |-> scope,
                               metadata |-> metadata,
                               setting_type |-> setting_type,
                               id |-> id]))

\* BaseSetting.from_json
BaseSetting_from_json(_json) ==
    LET scope == SettingScope_from_json(Get(_json[2], "scope"))
    IN  IF scope.raised THEN scope
        ELSE BaseSetting_init([cls |-> "BaseSetting"],
                              Get(_json[2], "defaultValue"),
                              Get(_json[2], "value"),
                              Get(_json[2], "name"),
                              Get(_json[2], "valueType"),
                              scope.val,
                              Get(_json[2], "metadata"),
                              Get(_json[2], "settingType"),
                              Get(_json[2], "id"))

\* the loop body of __slot_to_db_slot without its isinstance test: a filter
\* that is already text is encoded again
display_scope_to_db_always(display_scope) ==
    IF "filter" \in DOMAIN display_scope[2]
    THEN PyDict(SetItem(display_scope[2], "filter",
                        PyStr(json_dumps(display_scope[2]["filter"]))))
    ELSE display_scope

\* the loop body of __slot_to_db_slot on one display scope
display_scope_to_db(display_scope) ==
    IF "filter" \in DOMAIN display_scope[2] /\ IsDict(display_scope[2]["filter"])
    THEN PyDict(SetItem(display_scope[2], "filter",
                        PyStr(json_dumps(display_scope[2]["filter"]))))
    ELSE display_scope

\* __slot_to_db_slot leaving its loop after the first display scope
slot_to_db_slot_first(slot) ==
    IF "displayScopes" \in DOMAIN slot[2]
    THEN LET scopes == slot[2]["displayScopes"]
         IN  IF Truthy(scopes)
             THEN PyDict(SetItem(slot[2], "displayScopes",
                      PyList([i \in 1..Len(scopes[2]) |->
                                  IF i = 1 THEN display_scope_to_db(scopes[2][i])
                                  ELSE scopes[2][i]])))
             ELSE slot
    ELSE slot

\* BaseSetting.__slot_to_db_slot: the slot after the in-place rewrite
slot_to_db_slot(slot) ==
    IF "displayScopes" \in DOMAIN slot[2]
    THEN LET scopes == slot[2]["displayScopes"]
         IN  IF Truthy(scopes)
             THEN PyDict(SetItem(slot[2], "displayScopes",
                      PyList([i \in 1..Len(scopes[2]) |->
                                  display_scope_to_db(scopes[2][i])])))
             ELSE slot
    ELSE slot

\* self.metadata after the first loop of BaseSetting.to_json
metadata_to_db(metadata) ==
    IF ~IsNone(metadata) /\ "slots" \in DOMAIN metadata[2] /\ IsList(metadata[2]["slots"])
    THEN LET slots == metadata[2]["slots"][2]
         IN  PyDict(SetItem(metadata[2], "slots",
                      PyList([i \in 1..Len(slots) |-> slot_to_db_slot(slots[i])])))
    ELSE metadata

\* self after BaseSetting.to_json (metadata is rewritten in place)
BaseSetting_after_to_json(self) ==
    [self EXCEPT !.metadata = metadata_to_db(self.metadata)]

\* BaseSetting.to_json testing value for truth instead of against None
BaseSetting_to_json_truthy(self) ==
    LET me == BaseSetting_after_to_json(self)
        j0 == [name |-> me.name,
               valueType |-> me.value_type,
               scope |-> SettingScope_to_json(me.scope),
               settingType |-> me.setting_type,
               id |-> me.id]
        j1 == SetIf(~IsNone(me.metadata), j0, "metadata", me.metadata)
        j2 == SetIf(Truthy(me.value), j1, "value", me.value)
        j3 == SetIf(~IsNone(me.default_value), j2, "defaultValue", me.default_value)
    IN  Return(PyDict(j3))

\* BaseSetting.to_json: the returned _json
BaseSetting_to_json(self) ==
    LET me == BaseSetting_after_to_json(self)
        j0 == [name |-> me.name,
               valueType |-> me.value_type,
               scope |-> SettingScope_to_json(me.scope),
               settingType |-> me.setting_type,
               id |-> me.id]
        j1 == SetIf(~IsNone(me.metadata), j0, "metadata", me.metadata)
        j2 == SetIf(~IsNone(me.value), j1, "value", me.value)
        j3 == SetIf(~IsNone(me.default_value), j2, "defaultValue", me.default_value)
    IN  Return(PyDict(j3))

\* BaseSetting.delete; response is what self.settings.delete answers
BaseSetting_delete(self, response) ==
    After(<< <<"settings.delete", self.id, response>> >>, response)

\* BaseSetting.update calling the repository again after an error
BaseSetting_update_retry(self, response) ==
    IF response.raised
    THEN After(<< <<"settings.update", self, response>>,
                  <<"settings.update", self, response>> >>, response)
    ELSE After(<< <<"settings.update", self, response>> >>, response)

\* BaseSetting.update; response is what self.settings.update answers
BaseSetting_update(self, response) ==
    After(<< <<"settings.update", self, response>> >>, response)

(* ----------------------------- Setting --------------------------------- *)

\* SettingsTypes.USER_SETTINGS
USER_SETTINGS == PyStr("user_settings")

\* SettingsTypes.FEATURE_FLAG
FEATURE_FLAG == PyStr("feature_flag")

\* Setting.__init__
Setting_init(self, value, name, value_type, scope, section_name, default_value, inputs, metadata, description, icon, id, sub_section_name, hint) ==
    LET base == BaseSetting_init(self, default_value, value, name, value_type,
                                 scope, metadata, USER_SETTINGS, id)
    IN  IF base.raised THEN base
        ELSE [base EXCEPT !.val = @ @@ [description |-> description,
                                        inputs |-> inputs,
                                        icon |-> icon,
                                        section_name |-> section_name,
                                        hint |-> hint,
                                        sub_section_name |-> sub_section_name]]

\* Setting.from_json
Setting_from_json(_json) ==
    LET scope == SettingScope_from_json(Get(_json[2], "scope"))
    IN  IF scope.raised THEN scope
        ELSE Setting_init([cls |-> "Setting"],
                          Get(_json[2], "value"),
                          Get(_json[2], "name"),
                          Get(_json[2], "valueType"),
                          scope.val,
                          Get(_json[2], "sectionName"),
                          Get(_json[2], "defaultValue"),
                          Get(_json[2], "inputs"),
                          Get(_json[2], "metadata"),
                          Get(_json[2], "description"),
                          Get(_json[2], "icon"),
                          Get(_json[2], "id"),
                          Get(_json[2], "subSectionName"),
                          Get(_json[2], "hint"))

\* Setting.to_json testing description for truth instead of against None
Setting_to_json_truthy(self) ==
    LET j0 == BaseSetting_to_json(self).val[2]
        j1 == SetIf(Truthy(self.description), j0, "description", self.description)
        j2 == SetIf(~IsNone(self.inputs), j1, "inputs", self.inputs)
        j3 == SetIf(~IsNone(self.icon), j2, "icon", self.icon)
        j4 == SetIf(~IsNone(self.section_name), j3, "sectionName", self.section_name)
        j5 == SetIf(~IsNone(self.hint), j4, "hint", self.hint)
        j6 == SetIf(~IsNone(self.sub_section_name), j5, "subSectionName", self.sub_section_name)
        j7 == SetIf(~IsNone(self.id), j6, "id", self.id)
    IN  Return(PyDict(j7))

\* Setting.to_json
Setting_to_json(self) ==
    LET j0 == BaseSetting_to_json(self).val[2]
        j1 == SetIf(~IsNone(self.description), j0, "description", self.description)
        j2 == SetIf(~IsNone(self.inputs), j1, "inputs", self.inputs)
        j3 == SetIf(~IsNone(self.icon), j2, "icon", self.icon)
        j4 == SetIf(~IsNone(self.section_name), j3, "sectionName", self.section_name)
        j5 == SetIf(~IsNone(self.hint), j4, "hint", self.hint)
        j6 == SetIf(~IsNone(self.sub_section_name), j5, "subSectionName", self.sub_section_name)
        j7 == SetIf(~IsNone(self.id), j6, "id", self.id)
    IN  Return(PyDict(j7))

(* ---------------------------- UserSetting ------------------------------ *)

\* UserSetting.__init__ warning after the Setting constructor instead of before
UserSetting_init_warn_last(self, default_value, value, name, value_type, scope, section_name, inputs, metadata, description, icon, id, sub_section_name, hint) ==
    LET o == Setting_init(self, value, name, value_type, scope, section_name,
                          default_value, inputs, metadata, description, icon, id,
                          sub_section_name, hint)
    IN  IF o.raised THEN o
        ELSE [o EXCEPT !.effects = @ \o << <<"warnings.warn", "DeprecationWarning">> >>]

\* UserSetting.__init__
UserSetting_init(self, default_value, value, name, value_type, scope, section_name, inputs, metadata, description, icon, id, sub_section_name, hint) ==
    After(<< <<"warnings.warn", "DeprecationWarning">> >>,
          Setting_init(self, value, name, value_type, scope, section_name,
                       default_value, inputs, metadata, description, icon, id,
                       sub_section_name, hint))

(* ------------------- the settings repository --------------------------- *)

\* errors the repository (and the transport under it) surfaces
RepositoryErrors == {"NotFound", "Forbidden"}

\* what repositories.Settings.update(setting) may answer: the server's
\* representation of the setting, or an error
Settings_update(setting) ==
    {Return([setting EXCEPT !.id = PyStr("s1")])} \cup {Raise(e) : e \in RepositoryErrors}

\* what repositories.Settings.delete(setting_id) may answer
Settings_delete(setting_id) ==
    {Return(PyBool(TRUE)), Return(PyBool(FALSE))} \cup {Raise(e) : e \in RepositoryErrors}

(* ------------------------ bounded inputs ------------------------------- *)

\* the lists over S of length at most n in which every element but at most
\* one is dflt
ListsUpTo(S, dflt, n) ==
    {<<>>} \cup UNION {{[i \in 1..k |-> IF i = p THEN x ELSE dflt] : p \in 1..k, x \in S} :
                         k \in 1..n}

\* scopes: every attribute ranges over null, falsy and truthy values
ScopeSet ==
    {SettingScope_init(t, i, r, p, v) :
        t \in {None, PyStr("project")},
        i \in {None, PyStr(""), PyStr("p1")},
        r \in {None, PyStr("owner")},
        p \in {None, PyBool(FALSE), PyBool(TRUE)},
        v \in {None, PyBool(FALSE), PyBool(TRUE), PyInt(0)}}

DefaultScope == SettingScope_init(PyStr("project"), PyStr("p1"), None, None, None)

StructuredFilter == PyDict([field |-> PyStr("a"), value |-> PyInt(1)])

\* filters: already encoded text, or a structured mapping
FilterSet == {PyStr("{}"), PyDict([field |-> PyStr("a")]), StructuredFilter}

DisplayScopeSet ==
    {PyDict([name |-> PyStr("ds")])} \cup {PyDict([filter |-> f]) : f \in FilterSet}

DisplayScopeLists ==
    ListsUpTo(DisplayScopeSet, PyDict([filter |-> StructuredFilter]), MaxDisplayScopes)

SlotSet ==
    {PyDict([name |-> PyStr("slot")]), PyDict([displayScopes |-> None])}
    \cup {PyDict([displayScopes |-> PyList(l)]) : l \in DisplayScopeLists}

SlotLists ==
    ListsUpTo(SlotSet,
              PyDict([displayScopes |-> PyList(<<PyDict([filter |-> StructuredFilter])>>)]),
              MaxSlots)

MetadataSet ==
    {None, PyDict(EmptyDict), PyDict([note |-> PyStr("n")]),
     PyDict([slots |-> PyStr("x")])}
    \cup {PyDict([slots |-> PyList(l)]) : l \in SlotLists}

ValueSet == {None, PyBool(FALSE), PyBool(TRUE)}

DefaultValueSet == {None, PyInt(0)}

DefaultArgs ==
    [default_value |-> None, value |-> PyBool(TRUE), name |-> PyStr("flag1"),
     value_type |-> PyStr("boolean"), scope |-> DefaultScope, metadata |-> None,
     setting_type |-> FEATURE_FLAG, id |-> None, section_name |-> None,
     inputs |-> None, description |-> None, icon |-> None,
     sub_section_name |-> None, hint |-> None]

\* name, value_type, setting_type, id and metadata null or not
FieldArgs ==
    {[DefaultArgs EXCEPT !.name = n, !.value_type = t, !.setting_type = st, !.id = i,
                         !.metadata = m] :
        n \in {None, PyStr("flag1")},
        t \in {None, PyStr("boolean")},
        st \in {None, FEATURE_FLAG, USER_SETTINGS},
        i \in {None, PyStr("s1")},
        m \in {None, PyDict(EmptyDict)}}

\* the arguments only Setting takes, null or not
SettingArgs ==
    {[DefaultArgs EXCEPT !.section_name = sn, !.inputs = inp, !.description = d,
                         !.icon = ic, !.sub_section_name = ssn, !.hint = h] :
        sn \in {None, PyStr("SDK")},
        inp \in {None, PyList(<<>>)},
        d \in {None, PyStr("")},
        ic \in {None, PyStr("icon")},
        ssn \in {None, PyStr("sub")},
        h \in {None, PyBool(FALSE)}}

\* constructor arguments: value and default_value range over their domains
\* together with the plain arguments; scopes and metadata range over theirs
\* with the other arguments at their default
ArgSet ==
    {[a EXCEPT !.value = v, !.default_value = d] :
        a \in FieldArgs \cup SettingArgs, v \in ValueSet, d \in DefaultValueSet}
    \cup {[DefaultArgs EXCEPT !.scope = s, !.value = v] :
              s \in ScopeSet, v \in {None, PyBool(TRUE)}}
    \cup {[DefaultArgs EXCEPT !.metadata = m, !.value = v] :
              m \in MetadataSet, v \in {None, PyBool(TRUE)}}

\* the JSON keys and the constructor argument each one carries
KeyArg ==
    [name |-> "name", valueType |-> "value_type", settingType |-> "setting_type",
     id |-> "id", metadata |-> "metadata", value |-> "value",
     defaultValue |-> "default_value", description |-> "description",
     inputs |-> "inputs", icon |-> "icon", sectionName |-> "section_name",
     hint |-> "hint", subSectionName |-> "sub_section_name"]

ScopeKeyArg ==
    [type |-> "type", id |-> "id", role |-> "role",
     preventOverride |-> "prevent_override", visible |-> "visible"]

\* a platform JSON object: the keys whose argument is null are absent
JsonObject(keyArg, a) ==
    PyDict([k \in {x \in DOMAIN keyArg : ~IsNone(a[keyArg[x]])} |-> a[keyArg[k]]])

\* platform JSON of a setting; flavour "noscope" lacks the scope key and
\* flavour "extra" carries keys the entities do not know
JsonInput(a, flavour) ==
    LET j == JsonObject(KeyArg, a)[2]
        sc == JsonObject(ScopeKeyArg, a.scope)[2]
    IN  CASE flavour = "plain"   -> PyDict(SetItem(j, "scope", PyDict(sc)))
          [] flavour = "noscope" -> PyDict(j)
          [] flavour = "extra"   ->
                PyDict(SetItem(SetItem(j, "scope", PyDict(SetItem(sc, "creator", PyStr("u")))),
                               "createdAt", PyInt(1)))

Flavours == {"plain", "noscope", "extra"}

(* ------------------------------ state ---------------------------------- *)

\* no entity is held (nothing built yet, or the last construction raised)
NoEntity == [cls |-> "NoneType"]

\* args are the argument values the caller works with
Init ==
    /\ args \in ArgSet
    /\ entity = NoEntity
    /\ out = None
    /\ saved = None
    /\ call = [op |-> "start", cls |-> "NoneType", arg |-> None]
    /\ result = [raised |-> FALSE, val |-> None]
    /\ trace = <<>>

\* the caller makes the call described by c and gets outcome o; a
\* construction or deserialization replaces the held entity
Built(c, o) ==
    /\ entity' = IF o.raised THEN NoEntity ELSE o.val
    /\ out' = None
    /\ call' = c
    /\ result' = [raised |-> o.raised, val |-> o.val]
    /\ trace' = o.effects
    /\ UNCHANGED args

\* BaseSetting(...)
ConstructBaseSetting ==
    LET a == args IN
        /\ Built([op |-> "init", cls |-> "BaseSetting", arg |-> a],
                 BaseSetting_init([cls |-> "BaseSetting"], a.default_value, a.value,
                                  a.name, a.value_type, a.scope, a.metadata,
                                  a.setting_type, a.id))
        /\ saved' = None

\* Setting(...)
ConstructSetting ==
    LET a == args IN
        /\ Built([op |-> "init", cls |-> "Setting", arg |-> a],
                 Setting_init([cls |-> "Setting"], a.value, a.name, a.value_type,
                              a.scope, a.section_name, a.default_value, a.inputs,
                              a.metadata, a.description, a.icon, a.id,
                              a.sub_section_name, a.hint))
        /\ saved' = None

\* UserSetting(...)
ConstructUserSetting ==
    LET a == args IN
        /\ Built([op |-> "init", cls |-> "UserSetting", arg |-> a],
                 UserSetting_init([cls |-> "UserSetting"], a.default_value, a.value,
                                  a.name, a.value_type, a.scope, a.section_name,
                                  a.inputs, a.metadata, a.description, a.icon, a.id,
                                  a.sub_section_name, a.hint))
        /\ saved' = None

\* cls.from_json resolved through the class hierarchy: UserSetting inherits
\* the static method of Setting
from_json(cls, _json) ==
    IF cls = "BaseSetting" THEN BaseSetting_from_json(_json) ELSE Setting_from_json(_json)

\* obj.to_json resolved through the class hierarchy
to_json(self) ==
    IF self.cls = "BaseSetting" THEN BaseSetting_to_json(self) ELSE Setting_to_json(self)

\* cls.from_json(platform JSON)
FromJson ==
    \E c \in {"BaseSetting", "Setting", "UserSetting"}, f \in Flavours :
        /\ Built([op |-> "from_json", cls |-> c, arg |-> JsonInput(args, f)],
                 from_json(c, JsonInput(args, f)))
        /\ saved' = None

\* entity.to_json()
ToJson ==
    /\ entity # NoEntity
    /\ LET o == to_json(entity)
       IN  /\ entity' = BaseSetting_after_to_json(entity)
           /\ out' = o.val
           /\ call' = [op |-> "to_json", cls |-> entity.cls, arg |-> None]
           /\ result' = [raised |-> o.raised, val |-> o.val]
           /\ trace' = o.effects
    /\ UNCHANGED <<args, saved>>

\* type(entity).from_json(entity.to_json()): the serialization just made is
\* kept in saved and deserialized again
Reload ==
    /\ entity # NoEntity
    /\ out # None
    /\ Built([op |-> "from_json", cls |-> entity.cls, arg |-> out],
             from_json(entity.cls, out))
    /\ saved' = out

\* entity.update()
Update ==
    /\ entity # NoEntity
    /\ \E response \in Settings_update(entity) :
          LET o == BaseSetting_update(entity, response)
          IN  /\ call' = [op |-> "update", cls |-> entity.cls, arg |-> None]
              /\ result' = [raised |-> o.raised, val |-> o.val]
              /\ trace' = o.effects
    /\ UNCHANGED <<args, entity, out, saved>>

\* entity.delete()
Delete ==
    /\ entity # NoEntity
    /\ \E response \in Settings_delete(entity.id) :
          LET o == BaseSetting_delete(entity, response)
          IN  /\ call' = [op |-> "delete", cls |-> entity.cls, arg |-> None]
              /\ result' = [raised |-> o.raised, val |-> o.val]
              /\ trace' = o.effects
    /\ UNCHANGED <<args, entity, out, saved>>

Next ==
    \/ ConstructBaseSetting
    \/ ConstructSetting
    \/ ConstructUserSetting
    \/ FromJson
    \/ ToJson
    \/ Reload
    \/ Update
    \/ Delete

Spec == Init /\ [][Next]_vars

\* the caller works with the arguments of a setting that can exist: value or
\* default_value is not null
InitStored == Init /\ ~(IsNone(args.value) /\ IsNone(args.default_value))

SpecStored == InitStored /\ [][Next]_vars

(* ------------------------------ claims --------------------------------- *)

ValidationError == <<"exception", "Must provide either value or default_value">>

\* C1: a construction (BaseSetting, Setting or UserSetting) with value and
\* default_value both null raises the validation error at once, before any
\* repository is built, and yields no entity; with either of them non-null
\* it returns an entity of the class asked for, whatever the other arguments.
C1_ConstructorValidation ==
    call.op = "init" =>
        IF IsNone(call.arg.value) /\ IsNone(call.arg.default_value)
        THEN /\ result.raised
             /\ result.val = ValidationError
             /\ entity = NoEntity
             /\ \A i \in 1..Len(trace) : trace[i][1] # "repositories.Settings"
        ELSE /\ ~result.raised
             /\ entity # NoEntity
             /\ result.val = entity
             /\ entity.cls = call.cls

C1_Witness ==
    /\ call.op = "init"
    /\ call.cls = "Setting"
    /\ IsNone(call.arg.value) /\ IsNone(call.arg.default_value)
    /\ call.arg.scope # DefaultScope
    /\ result.raised

\* the scope attributes that hold a falsy value other than null
FalsyPresent(scope) ==
    {x \in ScopeAttrs : scope[x] \in {PyBool(FALSE), PyInt(0), PyStr("")}}

\* C2: deserializing the serialization of an entity succeeds, and the entity
\* it gives serializes to the same JSON; in that entity no scope attribute
\* holds a falsy non-null value (those were dropped by the serialization).
C2_RoundTrip ==
    saved # None =>
        /\ call.op = "from_json" => (~result.raised /\ FalsyPresent(entity.scope) = {})
        /\ call.op = "to_json" => out = saved

C2_Witness ==
    /\ saved # None
    /\ call.op = "to_json"
    /\ out = saved
    /\ args.scope.visible = PyBool(FALSE)
    /\ args.scope.prevent_override = PyBool(TRUE)
    /\ entity.scope.visible = None

\* C3 (as claimed): from_json never fails, whichever keys are absent or
\* additional, and every absent field is null in the entity it returns.
\* Checked on the JSON of settings that hold a value or a default value, so
\* that the constructor's check is not what fails.
C3_DeserializationNeverFails ==
    call.op = "from_json" =>
        /\ ~result.raised
        /\ entity # NoEntity
        /\ \A k \in DOMAIN KeyArg :
              (k \notin DOMAIN call.arg[2] /\ KeyArg[k] \in DOMAIN entity /\ k # "settingType")
                  => IsNone(entity[KeyArg[k]])

\* C4 (as claimed): every constructed entity has exactly one of value and
\* default_value non-null.
C4_ExactlyOne ==
    (call.op = "init" /\ ~result.raised) =>
        (IsNone(result.val.value) # IsNone(result.val.default_value))

\* C4 (amended): every constructed entity has at least one of value and
\* default_value non-null; both may be non-null.
C4_AtLeastOne ==
    (call.op \in {"init", "from_json"} /\ ~result.raised) =>
        ~(IsNone(result.val.value) /\ IsNone(result.val.default_value))

C4_Witness ==
    /\ call.op = "init"
    /\ ~result.raised
    /\ ~IsNone(result.val.value)
    /\ ~IsNone(result.val.default_value)

\* the JSON of the example: flag1 with value true in the scope of project p1
ExampleJson ==
    PyDict([name |-> PyStr("flag1"),
            valueType |-> PyStr("boolean"),
            scope |-> PyDict([type |-> PyStr("project"), id |-> PyStr("p1")]),
            settingType |-> PyStr("feature_flag"),
            id |-> None,
            value |-> PyBool(TRUE)])

\* C5: BaseSetting.to_json emits name, valueType, scope (the serialized
\* scope), settingType and id (also when null) with the values of the
\* fields, emits metadata, value and defaultValue exactly when the field is
\* not null, and emits nothing else; the example setting serializes to
\* exactly the example JSON.
C5_BaseKeys ==
    (call.op = "to_json" /\ call.cls = "BaseSetting") =>
        LET j == out[2]
            optional == {k \in {"metadata", "value", "defaultValue"} :
                            ~IsNone(entity[KeyArg[k]])}
        IN  /\ ~result.raised
            /\ DOMAIN j = {"name", "valueType", "scope", "settingType", "id"} \cup optional
            /\ j["scope"] = SettingScope_to_json(entity.scope)
            /\ \A k \in (DOMAIN j) \ {"scope"} : j[k] = entity[KeyArg[k]]
            /\ args = DefaultArgs => out = ExampleJson

C5_Witness ==
    /\ call.op = "to_json"
    /\ call.cls = "BaseSetting"
    /\ out = ExampleJson

\* the text json.dumps gives for StructuredFilter
StructuredFilterText == PyStr("{\"field\": \"a\", \"value\": 1}")

\* display scope d of the entity is emitted as e: a mapping filter as its
\* text, anything else as it is
EmittedDisplayScope(d, e) ==
    IF "filter" \in DOMAIN d[2] /\ IsDict(d[2]["filter"])
    THEN /\ DOMAIN e[2] = DOMAIN d[2]
         /\ e[2]["filter"][1] = "str"
         /\ e[2]["filter"] = PyStr(json_dumps(d[2]["filter"]))
         /\ d[2]["filter"] = StructuredFilter => e[2]["filter"] = StructuredFilterText
         /\ \A k \in (DOMAIN d[2]) \ {"filter"} : e[2][k] = d[2][k]
    ELSE e = d

\* slot s of the entity is emitted as t
EmittedSlot(s, t) ==
    IF "displayScopes" \in DOMAIN s[2] /\ IsList(s[2]["displayScopes"])
    THEN /\ DOMAIN t[2] = DOMAIN s[2]
         /\ IsList(t[2]["displayScopes"])
         /\ Len(t[2]["displayScopes"][2]) = Len(s[2]["displayScopes"][2])
         /\ \A j \in 1..Len(s[2]["displayScopes"][2]) :
               EmittedDisplayScope(s[2]["displayScopes"][2][j], t[2]["displayScopes"][2][j])
    ELSE t = s

\* C6: when metadata.slots is a list, to_json emits, for every slot i and
\* every display scope j of it, a filter that was a mapping as the text that
\* encodes it, never as a mapping, and emits a filter that was text and a
\* display scope without filter unchanged.
C6_FiltersEncoded ==
    [][(call'.op = "to_json"
          /\ ~IsNone(entity.metadata)
          /\ "slots" \in DOMAIN entity.metadata[2]
          /\ IsList(entity.metadata[2]["slots"]))
       => LET slots == entity.metadata[2]["slots"][2]
              emitted == out'[2]["metadata"][2]["slots"]
          IN  /\ IsList(emitted)
              /\ Len(emitted[2]) = Len(slots)
              /\ \A i \in 1..Len(slots) : EmittedSlot(slots[i], emitted[2][i])]_vars

C6_Witness ==
    /\ call.op = "to_json"
    /\ ~IsNone(args.metadata)
    /\ "slots" \in DOMAIN args.metadata[2]
    /\ IsList(args.metadata[2]["slots"])
    /\ Len(args.metadata[2]["slots"][2]) = 2
    /\ LET s == args.metadata[2]["slots"][2][2]
           t == out[2]["metadata"][2]["slots"][2][2]
       IN  /\ "displayScopes" \in DOMAIN s[2]
           /\ IsList(s[2]["displayScopes"])
           /\ Len(s[2]["displayScopes"][2]) = 2
           /\ s[2]["displayScopes"][2][1] = PyDict([filter |-> PyStr("{}")])
           /\ s[2]["displayScopes"][2][2] = PyDict([filter |-> StructuredFilter])
           /\ t[2]["displayScopes"][2][2] = PyDict([filter |-> StructuredFilterText])

\* the values Python takes for false: null, false, zero, the empty string
Falsy == {None, PyBool(FALSE), PyInt(0), PyStr("")}

\* C7: the scope object in a serialization has a key exactly for the scope
\* attributes (type, id, role, preventOverride, visible) whose value is
\* truthy, with that value; so it equals the serialization of the scope in
\* which every falsy attribute is null.
C7_ScopeTruthyOnly ==
    call.op = "to_json" =>
        LET j == out[2]["scope"][2]
            scope == entity.scope
        IN  /\ DOMAIN j = {k \in DOMAIN ScopeKeyArg : scope[ScopeKeyArg[k]] \notin Falsy}
            /\ \A k \in DOMAIN j : j[k] = scope[ScopeKeyArg[k]]
            /\ PyDict(j) = SettingScope_to_json(
                               [x \in ScopeAttrs |-> IF scope[x] \in Falsy THEN None ELSE scope[x]])

C7_Witness ==
    /\ call.op = "to_json"
    /\ entity.scope.visible = PyBool(FALSE)
    /\ entity.scope.prevent_override = PyBool(TRUE)
    /\ entity.scope.id = PyStr("")
    /\ DOMAIN out[2]["scope"][2] = {"type", "preventOverride"}

SettingKeys == {"description", "inputs", "icon", "sectionName", "hint", "subSectionName"}

\* C8: the serialization of a Setting has every key of the BaseSetting
\* serialization of the same fields with the same value (id also when
\* null), and beyond them exactly the keys among description, inputs, icon,
\* sectionName, hint, subSectionName whose field is not null, with the
\* field's value.
C8_SettingSuperset ==
    (call.op = "to_json" /\ call.cls \in {"Setting", "UserSetting"}) =>
        LET j == out[2]
            base == BaseSetting_to_json(entity).val[2]
        IN  /\ ~result.raised
            /\ "id" \in DOMAIN base
            /\ DOMAIN base \subseteq DOMAIN j
            /\ \A k \in DOMAIN base : j[k] = base[k]
            /\ (DOMAIN j) \ (DOMAIN base) = {k \in SettingKeys : ~IsNone(entity[KeyArg[k]])}
            /\ \A k \in (DOMAIN j) \ (DOMAIN base) : j[k] = entity[KeyArg[k]]

C8_Witness ==
    /\ call.op = "to_json"
    /\ call.cls = "Setting"
    /\ entity.description = PyStr("")
    /\ IsNone(entity.icon)
    /\ IsNone(entity.id)
    /\ DOMAIN out[2] = {"name", "valueType", "scope", "settingType", "id", "value",
                        "description"}
    /\ out[2]["id"] = None

DeprecationSignal == <<"warnings.warn", "DeprecationWarning">>

\* C9: a UserSetting construction issues exactly one deprecation warning,
\* first of all and also when the construction then fails, and otherwise
\* does what the Setting constructor does with the same arguments (same
\* failure, same fields); to_json on a UserSetting gives what Setting.to_json
\* gives on the same fields and UserSetting.from_json is Setting.from_json.
C9_UserSettingAsSetting ==
    /\ (call.op = "init" /\ call.cls = "UserSetting") =>
          LET a == call.arg
              o == Setting_init([cls |-> "UserSetting"], a.value, a.name, a.value_type,
                                a.scope, a.section_name, a.default_value, a.inputs,
                                a.metadata, a.description, a.icon, a.id,
                                a.sub_section_name, a.hint)
          IN  /\ Len(trace) >= 1
              /\ trace[1] = DeprecationSignal
              /\ \A i \in 2..Len(trace) : trace[i] # DeprecationSignal
              /\ Tail(trace) = o.effects
              /\ result = [raised |-> o.raised, val |-> o.val]
              /\ result.raised <=> (IsNone(a.value) /\ IsNone(a.default_value))
    /\ (call.op = "to_json" /\ call.cls = "UserSetting") =>
          out = Setting_to_json([entity EXCEPT !.cls = "Setting"]).val
    /\ (call.op = "from_json" /\ call.cls = "UserSetting") =>
          LET o == Setting_from_json(call.arg)
          IN  result = [raised |-> o.raised, val |-> o.val] /\ trace = o.effects

C9_Witness ==
    /\ call.op = "init"
    /\ call.cls = "UserSetting"
    /\ ~result.raised
    /\ entity.cls = "UserSetting"
    /\ trace = <<DeprecationSignal, <<"repositories.Settings">> >>

\* C10: update() makes exactly one call of the repository's update with the
\* entity, delete() exactly one call of the repository's delete with the
\* entity's id; what the repository answers, result or error, is what the
\* caller gets, and the entity is left as it was.
C10_Delegation ==
    [][/\ call'.op = "update" =>
            /\ Len(trace') = 1
            /\ trace'[1][1] = "settings.update"
            /\ trace'[1][2] = entity
            /\ trace'[1][3] \in Settings_update(entity)
            /\ result' = [raised |-> trace'[1][3].raised, val |-> trace'[1][3].val]
            /\ entity' = entity
       /\ call'.op = "delete" =>
            /\ Len(trace') = 1
            /\ trace'[1][1] = "settings.delete"
            /\ trace'[1][2] = entity.id
            /\ trace'[1][3] \in Settings_delete(entity.id)
            /\ result' = [raised |-> trace'[1][3].raised, val |-> trace'[1][3].val]
            /\ entity' = entity]_vars

C10_Witness ==
    /\ call.op = "update"
    /\ result.raised
    /\ result.val = <<"exception", "NotFound">>
    /\ Len(trace) = 1

\* metadata m of the entity has become n: the mapping filters under
\* slots[*].displayScopes[*] are their text, everything else is as it was
MetadataEncoded(m, n) ==
    IF ~IsNone(m) /\ "slots" \in DOMAIN m[2] /\ IsList(m[2]["slots"])
    THEN /\ IsDict(n)
         /\ DOMAIN n[2] = DOMAIN m[2]
         /\ \A k \in (DOMAIN m[2]) \ {"slots"} : n[2][k] = m[2][k]
         /\ IsList(n[2]["slots"])
         /\ Len(n[2]["slots"][2]) = Len(m[2]["slots"][2])
         /\ \A i \in 1..Len(m[2]["slots"][2]) :
               EmittedSlot(m[2]["slots"][2][i], n[2]["slots"][2][i])
    ELSE n = m

\* C11: to_json() leaves every field of the entity as it was, except that
\* the mapping filters under metadata.slots[*].displayScopes[*] are replaced,
\* in the entity's own metadata (the one the output carries), by their text;
\* a further to_json() on the entity then changes nothing and returns the
\* same output, so every call after the first returns the first's output.
C11_ToJsonFrame ==
    [][call'.op = "to_json"
       => /\ DOMAIN entity' = DOMAIN entity
          /\ \A f \in (DOMAIN entity) \ {"metadata"} : entity'[f] = entity[f]
          /\ MetadataEncoded(entity.metadata, entity'.metadata)
          /\ ~IsNone(entity'.metadata) => out'[2]["metadata"] = entity'.metadata
          /\ BaseSetting_after_to_json(entity') = entity'
          /\ to_json(entity').val = out'
          /\ out # None => out' = out]_vars

C11_Witness ==
    /\ call.op = "to_json"
    /\ call.cls = "Setting"
    /\ ~IsNone(args.metadata)
    /\ entity.metadata # args.metadata
    /\ out[2]["metadata"] = entity.metadata
    /\ entity.metadata[2]["slots"][2][1][2]["displayScopes"][2][1]
           = PyDict([filter |-> StructuredFilterText])

====
